---- MODULE Spec2Model ----
(***************************************************************************)
(* The session-pairing relay of src/server.ts (createServer): the registry *)
(* connectionPools / connectionPoolOpen, the WebSocket connection, message *)
(* and close handlers, the cleanup interval and sendMessage.               *)
(*                                                                         *)
(* Every handler runs to completion on the Node event loop, so each one is *)
(* one atomic action.  What a handler asks of the transport is recorded in *)
(* `sent` (the s.send(data) calls it made, in order) and `closed` (the     *)
(* s.close() calls it made, in order); `thrown` tells whether it raised.   *)
(*                                                                         *)
(* standalone.ts drives the server: the PM2 actions schedule-restart and   *)
(* send-message, and the SIGINT / SIGTERM handlers that await stop() and   *)
(* then call process.exit.                                                 *)
(***************************************************************************)
EXTENDS Integers, Sequences, FiniteSets, TLC

\* ------------------------------------------------------------------ bounds
MaxSockets == 3
TickMs == 60000
MaxBroken == 1
LongLen == 49125
MaxLog == 2

\* ------------------------------------------------------- program constants
GraceMs == 60000
SweepPeriodMs == 600000

Sockets == 1..MaxSockets
Urls == {"/a", "/b"}
Msgs == {"m1", "m2"}
\* The texts an operator broadcasts, by name (TextUnits gives their characters).
Texts == {"hi", "long"}
\* Short texts for the framer alone, two of them outside ASCII: U+00E9 once, and
\* U+20AC twice.
FramerTexts == {"", "hi", "e-acute", "euro euro"}
\* The value of the X-Rawterm-Is-Server header on the wire ("absent": not sent).
WireHeaderValues == {"absent", "Yes"}
\* The instants at which the clock is read: construction, and the last ticks up to
\* the first run of the cleanup interval.
Instants ==
    {0, SweepPeriodMs - 2 * TickMs, SweepPeriodMs - TickMs, SweepPeriodMs}

VARIABLES
    connectionPools,     \* url -> sequence of sockets           (server.ts:48)
    poolOrder,           \* own-key order of connectionPools (for..in order)
    connectionPoolOpen,  \* url -> Date.now() at creation        (server.ts:49)
    pipeCount,           \* server.ts:79
    enableMetrics,       \* config.enableMetrics (standalone.ts sets it)
    pipeCounter,         \* gauge http_active_pipes       (0 while undefined)
    connectionCounter,   \* gauge http_active_connections (0 while undefined)
    readyState,          \* socket -> "NONE" | "OPEN" | "CLOSING" | "CLOSED"
    sockUrl,             \* socket -> the `url` its handlers closed over
    sockIsServer,        \* socket -> the `isServer` its handlers closed over
    sockHdr,             \* socket -> the header value its request carried
    sendThrows,          \* sockets whose send() raises synchronously
    now,                 \* Date.now()
    nextSweepAt,         \* when the cleanup interval is next due
    sent,                \* send calls of the last handler: <<[to, data]>>,
                         \* data = [kind, body]: a relayed message, or the
                         \* packet / bpacket envelope of the text `body`
    closed,              \* close calls of the last handler: <<socket>>
    thrown,              \* the last handler raised
    last,                \* the last event: [op, sock, url, arg]
    joins,               \* url -> connection events handled (history)
    leaves,              \* url -> close events handled      (history)
    cleanupInterval,     \* "set" | "cleared"                  (server.ts:165)
    listening,           \* `server` accepts connections (until server.close())
    stopPc,              \* where stop() is: "idle" | "server" | "metrics" | "done"
    stopLog,             \* the calls stop() has made so far, in order
    awaitingRestart,     \* standalone.ts:19
    exited,              \* process.exit was called
    closeRequestedBy,    \* socket -> who first called close() on it (history)
    loneSince,           \* url -> since when the session has had exactly one
                         \* member, for the sessions that have one   (history)
    inbox,               \* the message events handled: <<[from, msg]>>
    outbox               \* the relay's send calls: <<[from, to, msg]>>
                         \* (both kept only by MessageLogged)

registry == <<connectionPools, poolOrder, connectionPoolOpen, pipeCount>>
gauges == <<pipeCounter, connectionCounter>>
sockets == <<readyState, sockUrl, sockIsServer, sockHdr>>
history == <<joins, leaves>>
process == <<cleanupInterval, listening, stopPc, stopLog, awaitingRestart, exited>>
edges == <<inbox, outbox>>
vars == <<connectionPools, poolOrder, connectionPoolOpen, pipeCount,
          enableMetrics, pipeCounter, connectionCounter, readyState, sockUrl,
          sockIsServer, sockHdr, sendThrows, now, nextSweepAt, sent, closed,
          thrown, last, joins, leaves, cleanupInterval, listening, stopPc,
          stopLog, awaitingRestart, exited, closeRequestedBy, loneSince,
          inbox, outbox>>

\* ----------------------------------------------------------- JS primitives
\* Array.prototype.indexOf: the 0-based index of the first x, or -1.
IndexOf(arr, x) ==
    IF \E i \in 1..Len(arr) : arr[i] = x
    THEN (CHOOSE i \in 1..Len(arr) :
              arr[i] = x /\ \A j \in 1..(i - 1) : arr[j] # x) - 1
    ELSE -1

\* Array.prototype.splice(start, deleteCount) with no inserted items: a negative
\* start counts from the end (clamped at 0); returns the array that remains.
Splice(arr, start, deleteCount) ==
    LET len == Len(arr)
        from == IF start < 0
                THEN (IF len + start < 0 THEN 0 ELSE len + start)
                ELSE (IF start > len THEN len ELSE start)
        cnt == IF deleteCount < 0 THEN 0
               ELSE IF deleteCount > len - from THEN len - from
               ELSE deleteCount
    IN  [i \in 1..(len - cnt) |-> IF i <= from THEN arr[i] ELSE arr[i + cnt]]

\* obj[key] for a key that may be missing.
Lookup(obj, key) == IF key \in DOMAIN obj THEN obj[key] ELSE "undefined"

\* obj[key] = value
Assign(obj, key, value) ==
    [k \in (DOMAIN obj) \cup {key} |-> IF k = key THEN value ELSE obj[k]]

\* delete obj[key]
Delete(obj, key) == [k \in (DOMAIN obj) \ {key} |-> obj[k]]

\* The elements of a sequence.
Range(seq) == {seq[i] : i \in 1..Len(seq)}

\* ------------------------------------------------------------ the transport
\* http.IncomingMessage.headers: Node presents header names in lower case.
RequestHeaders(wire) ==
    IF wire = "absent" THEN <<>>
    ELSE [k \in {"x-rawterm-is-server"} |-> wire]

Request(url, wire) == [url |-> url, headers |-> RequestHeaders(wire)]

\* ws send(): the calls of a handler are made in order; a call on a socket whose
\* send raises ends the handler there.  Returns the calls made and whether the
\* last one raised.
SendAll(calls) ==
    LET bad == {i \in 1..Len(calls) : calls[i].to \in sendThrows}
    IN  IF bad = {} THEN [done |-> calls, thrown |-> FALSE]
        ELSE LET first == CHOOSE i \in bad : \A j \in bad : i <= j
             IN  [done |-> SubSeq(calls, 1, first), thrown |-> TRUE]

\* ws close(): an OPEN socket starts closing; its close event comes later.
AfterClose(rs, targets) ==
    [s \in Sockets |-> IF s \in targets /\ rs[s] = "OPEN" THEN "CLOSING" ELSE rs[s]]

\* Who first asked an OPEN socket to close (a close() on a socket that is
\* already closing changes nothing).
Requested(by, rs, targets, who) ==
    [s \in Sockets |->
        IF s \in targets /\ rs[s] = "OPEN" /\ by[s] = "none" THEN who ELSE by[s]]

\* Since when each one-member session has had exactly one member, after a step
\* that leaves the registry as `pools` at time t.
LoneSinceAfter(since, pools, t) ==
    [u \in {k \in DOMAIN pools : Len(pools[k]) = 1} |->
        IF u \in DOMAIN since THEN since[u] ELSE t]

\* ------------------------------------------------------------- the registry
\* getConnectionCount (server.ts:275)
RECURSIVE SumLen(_, _)
SumLen(pools, keys) ==
    IF keys = {} THEN 0
    ELSE LET k == CHOOSE k \in keys : TRUE
         IN  Len(pools[k]) + SumLen(pools, keys \ {k})

getConnectionCount == SumLen(connectionPools, DOMAIN connectionPools)

\* getPipeCount (server.ts:276)
getPipeCount == pipeCount

\* const isServer = request.headers["X-Rawterm-Is-Server"] === "Yes";
IsServer(request) == Lookup(request.headers, "X-Rawterm-Is-Server") = "Yes"

Init ==
    /\ connectionPools = <<>>
    /\ poolOrder = <<>>
    /\ connectionPoolOpen = <<>>
    /\ pipeCount = 0
    /\ enableMetrics = TRUE
    /\ pipeCounter = 0
    /\ connectionCounter = 0
    /\ readyState = [s \in Sockets |-> "NONE"]
    /\ sockUrl = [s \in Sockets |-> "undefined"]
    /\ sockIsServer = [s \in Sockets |-> FALSE]
    /\ sockHdr = [s \in Sockets |-> "absent"]
    /\ sendThrows = {}
    /\ now = 0
    /\ nextSweepAt = SweepPeriodMs
    /\ sent = <<>>
    /\ closed = <<>>
    /\ thrown = FALSE
    /\ last = [op |-> "init", sock |-> 0, url |-> "undefined", arg |-> "undefined"]
    /\ joins = [u \in Urls |-> 0]
    /\ leaves = [u \in Urls |-> 0]
    /\ cleanupInterval = "set"
    /\ listening = TRUE
    /\ stopPc = "idle"
    /\ stopLog = <<>>
    /\ awaitingRestart = FALSE
    /\ exited = FALSE
    /\ closeRequestedBy = [s \in Sockets |-> "none"]
    /\ loneSince = <<>>
    /\ inbox = <<>>
    /\ outbox = <<>>

\* if (connectionPools[url] === undefined)
IsNewSession_EveryJoin(pools, url) == TRUE

IsNewSession_WhenLone(pools, url) ==
    url \notin DOMAIN pools \/ Len(pools[url]) = 1

IsNewSession(pools, url) == url \notin DOMAIN pools

\* wsServer.on('connection', (socket, request) => ...)      (server.ts:135-146)
OnConnection(socket, request) ==
    LET url == request.url
        isServer == IsServer(request)
        create == IsNewSession(connectionPools, url)
        pools1 == IF create THEN Assign(connectionPools, url, <<>>)
                  ELSE connectionPools
    IN  /\ connectionPools' = [pools1 EXCEPT ![url] = Append(@, socket)]
        /\ poolOrder' = IF create /\ url \notin DOMAIN connectionPools
                        THEN Append(poolOrder, url) ELSE poolOrder
        /\ connectionPoolOpen' = IF create THEN Assign(connectionPoolOpen, url, now)
                                 ELSE connectionPoolOpen
        /\ pipeCounter' = IF create /\ enableMetrics THEN pipeCounter + 1
                          ELSE pipeCounter
        /\ pipeCount' = IF create THEN pipeCount + 1 ELSE pipeCount
        /\ connectionCounter' = IF enableMetrics THEN connectionCounter + 1
                                ELSE connectionCounter
        /\ sockUrl' = [sockUrl EXCEPT ![socket] = url]
        /\ sockIsServer' = [sockIsServer EXCEPT ![socket] = isServer]
        /\ sent' = <<>>
        /\ closed' = <<>>
        /\ thrown' = FALSE

\* A peer connects: the upgrade hands the handler a fresh OPEN socket.  Socket
\* identities only name the objects, so the k-th connection is socket k; session
\* identifiers are opaque, so the first one ever used is "/a".
Connection(socket, url, wire) ==
    /\ ~exited
    /\ listening
    /\ readyState[socket] = "NONE"
    /\ \A j \in 1..(socket - 1) : readyState[j] # "NONE"
    /\ socket = 1 => url = "/a"
    /\ OnConnection(socket, Request(url, wire))
    /\ readyState' = [readyState EXCEPT ![socket] = "OPEN"]
    /\ sockHdr' = [sockHdr EXCEPT ![socket] = wire]
    /\ joins' = [joins EXCEPT ![url] = @ + 1]
    /\ last' = [op |-> "connection", sock |-> socket, url |-> url, arg |-> wire]
    /\ loneSince' = LoneSinceAfter(loneSince, connectionPools', now)
    /\ UNCHANGED <<enableMetrics, sendThrows, now, nextSweepAt, leaves, process,
                   closeRequestedBy, edges>>

\* socket.on('message', message => ...)                     (server.ts:147-149)
\* The send calls of the relay fan-out, in array order.
RelayCalls_Echo(pool, socket, message) ==
    [i \in 1..Len(pool) |->
        [to |-> pool[i], data |-> [kind |-> "message", body |-> message]]]

RelayCalls_Twice(pool, socket, message) ==
    LET others == SelectSeq(pool, LAMBDA s : s # socket)
    IN  [i \in 1..(2 * Len(others)) |->
            [to |-> others[(i + 1) \div 2],
             data |-> [kind |-> "message", body |-> message]]]

RelayCalls(pool, socket, message) ==
    LET others == SelectSeq(pool, LAMBDA s : s # socket)
    IN  [i \in 1..Len(others) |->
            [to |-> others[i], data |-> [kind |-> "message", body |-> message]]]

OnMessage(socket, message) ==
    LET url == sockUrl[socket]
    IN  IF url \notin DOMAIN connectionPools
        THEN \* connectionPools[url] is undefined: for..of raises a TypeError
             /\ sent' = <<>>
             /\ thrown' = TRUE
             /\ closed' = <<>>
             /\ UNCHANGED <<registry, gauges, sockets>>
        ELSE LET r == SendAll(RelayCalls(connectionPools[url], socket, message))
             IN  /\ sent' = r.done
                 /\ thrown' = r.thrown
                 /\ closed' = <<>>
                 /\ UNCHANGED <<registry, gauges, sockets>>

\* A frame arrives on a socket whose close event has not fired yet.
Message(socket, message) ==
    /\ ~exited
    /\ readyState[socket] \in {"OPEN", "CLOSING"}
    /\ OnMessage(socket, message)
    /\ last' = [op |-> "message", sock |-> socket, url |-> sockUrl[socket],
                arg |-> message]
    /\ UNCHANGED <<enableMetrics, sendThrows, now, nextSweepAt, history, process,
                   closeRequestedBy, loneSince, edges>>

\* socket.on('close', () => ...)                             (server.ts:151-161)
\* connectionPools[url].splice(connectionPools[url].indexOf(socket), 1)
PoolAfterLeave_OneBased(pool, socket) ==
    Splice(pool, IndexOf(pool, socket) + 1, 1)

PoolAfterLeave(pool, socket) == Splice(pool, IndexOf(pool, socket), 1)

\* if (isServer) for (let s of connectionPools[url]) s.close();
CascadeTargets(isServer, pool) == IF isServer THEN pool ELSE <<>>

\* if (connectionPools[url].length === 0)
PoolIsEmpty_OffByOne(pool) == Len(pool) <= 1

PoolIsEmpty(pool) == Len(pool) = 0

OnClose(socket) ==
    LET url == sockUrl[socket]
        isServer == sockIsServer[socket]
    IN  IF url \notin DOMAIN connectionPools
        THEN \* connectionPools[url] is undefined: .splice raises a TypeError
             /\ thrown' = TRUE
             /\ sent' = <<>>
             /\ closed' = <<>>
             /\ UNCHANGED <<registry, gauges, sockUrl, sockIsServer>>
             /\ readyState' = [readyState EXCEPT ![socket] = "CLOSED"]
        ELSE LET pool1 == PoolAfterLeave(connectionPools[url], socket)
                 targets == CascadeTargets(isServer, pool1)
                 empty == PoolIsEmpty(pool1)
             IN  /\ connectionPools' =
                        IF empty THEN Delete(connectionPools, url)
                        ELSE [connectionPools EXCEPT ![url] = pool1]
                 /\ poolOrder' =
                        IF empty THEN SelectSeq(poolOrder, LAMBDA k : k # url)
                        ELSE poolOrder
                 /\ connectionPoolOpen' =
                        IF empty THEN Delete(connectionPoolOpen, url)
                        ELSE connectionPoolOpen
                 /\ pipeCounter' = IF empty /\ enableMetrics THEN pipeCounter - 1
                                   ELSE pipeCounter
                 /\ pipeCount' = IF empty THEN pipeCount - 1 ELSE pipeCount
                 /\ connectionCounter' =
                        IF enableMetrics THEN connectionCounter - 1
                        ELSE connectionCounter
                 /\ readyState' =
                        [AfterClose(readyState, Range(targets))
                            EXCEPT ![socket] = "CLOSED"]
                 /\ closed' = targets
                 /\ sent' = <<>>
                 /\ thrown' = FALSE
                 /\ UNCHANGED <<sockUrl, sockIsServer>>

\* The transport emits the close event of a socket, once: the peer went away,
\* or a close the server requested has completed.
Close(socket) ==
    /\ ~exited
    /\ readyState[socket] \in {"OPEN", "CLOSING"}
    /\ OnClose(socket)
    /\ leaves' = [leaves EXCEPT ![sockUrl[socket]] = @ + 1]
    /\ last' = [op |-> "close", sock |-> socket, url |-> sockUrl[socket],
                arg |-> "undefined"]
    /\ sockHdr' = [sockHdr EXCEPT ![socket] = "absent"]
    /\ closeRequestedBy' =
          [Requested(closeRequestedBy, readyState, Range(closed'), "cascade")
              EXCEPT ![socket] = "none"]
    /\ loneSince' = LoneSinceAfter(loneSince, connectionPools', now)
    /\ UNCHANGED <<enableMetrics, sendThrows, now, nextSweepAt, joins, process,
                   edges>>

\* setInterval(() => ..., 10 * 60 * 1000)                    (server.ts:165-170)
\* if (connectionPools[x].length === 1 && now - connectionPoolOpen[x] > 60000)
Abandoned_AtGrace(pool, opened, t) == Len(pool) = 1 /\ t - opened >= GraceMs

Abandoned(pool, opened, t) == Len(pool) = 1 /\ t - opened > GraceMs

\* The close calls of one sweep, in for..in order: connectionPools[x][0].close()
SweepTargets(pools, order, opened, t) ==
    LET hit == SelectSeq(order, LAMBDA x : Abandoned(pools[x], opened[x], t))
    IN  [i \in 1..Len(hit) |-> pools[hit[i]][1]]

Sweep ==
    /\ ~exited
    /\ cleanupInterval = "set"
    /\ now >= nextSweepAt
    /\ LET targets == SweepTargets(connectionPools, poolOrder,
                                   connectionPoolOpen, now)
       IN  /\ closed' = targets
           /\ readyState' = AfterClose(readyState, Range(targets))
           /\ closeRequestedBy' =
                 Requested(closeRequestedBy, readyState, Range(targets), "reaper")
    /\ nextSweepAt' = now + SweepPeriodMs
    /\ sent' = <<>>
    /\ thrown' = FALSE
    /\ last' = [op |-> "sweep", sock |-> 0, url |-> "undefined", arg |-> "undefined"]
    /\ UNCHANGED <<registry, gauges, enableMetrics, sockUrl, sockIsServer,
                   sockHdr, sendThrows, now, history, process, loneSince, edges>>

\* Time passes, to the next instant.
Tick ==
    /\ ~exited
    /\ \E t \in Instants :
          /\ t > now
          /\ \A t2 \in Instants : t2 > now => t <= t2
          /\ now' = t
    /\ UNCHANGED <<registry, gauges, enableMetrics, sockets, sendThrows,
                   nextSweepAt, sent, closed, thrown, last, history, process,
                   closeRequestedBy, loneSince, edges>>

\* ------------------------------------------------------ the broadcast framer
\* A JavaScript string as runs of one UTF-16 code unit: <<[cu, n], ...>>.
TextUnits(text) ==
    CASE text = "hi" -> << [cu |-> 104, n |-> 1], [cu |-> 105, n |-> 1] >>
      [] text = "long" -> << [cu |-> 97, n |-> LongLen] >>
      [] text = "e-acute" -> << [cu |-> 233, n |-> 1] >>
      [] text = "euro euro" -> << [cu |-> 8364, n |-> 2] >>
      [] OTHER -> << >>

\* String.prototype.length: the number of code units.
RECURSIVE StringLength(_)
StringLength(runs) ==
    IF runs = <<>> THEN 0 ELSE Head(runs).n + StringLength(Tail(runs))

\* The UTF-8 bytes of one code unit (no surrogates among the inputs).
Utf8(cu) ==
    IF cu < 128 THEN <<cu>>
    ELSE IF cu < 2048 THEN <<192 + (cu \div 64), 128 + (cu % 64)>>
    ELSE <<224 + (cu \div 4096), 128 + ((cu \div 64) % 64), 128 + (cu % 64)>>

\* buf.write(string, offset): the UTF-8 bytes of the longest prefix of whole
\* characters that fits in the `room` bytes left, run by run.
RECURSIVE WrittenBytes(_, _)
WrittenBytes(runs, room) ==
    IF runs = <<>> THEN <<>>
    ELSE LET one == Utf8(Head(runs).cu)
             w == Len(one)
             fit == IF Head(runs).n * w <= room THEN Head(runs).n
                    ELSE room \div w
             bytes == [i \in 1..(fit * w) |-> one[((i - 1) % w) + 1]]
         IN  IF fit < Head(runs).n THEN bytes
             ELSE bytes \o WrittenBytes(Tail(runs), room - fit * w)

\* "Message from server" in ASCII.
Label ==
    <<77, 101, 115, 115, 97, 103, 101, 32, 102, 114, 111, 109, 32,
      115, 101, 114, 118, 101, 114>>

\* Buffer.alloc(27 + message.length)
BufferLength(text) == 27 + StringLength(TextUnits(text))

\* buf after lines 224-229, as the sequence of its bytes (byte i at place i + 1).
Buffer(text) ==
    LET len == BufferLength(text)
        payload == WrittenBytes(TextUnits(text), len - 26)
    IN  [p \in 1..len |->
            LET i == p - 1
            IN  IF i = 0 THEN 5
                ELSE IF i = 2 THEN 64
                ELSE IF i >= 6 /\ i < 6 + Len(Label) THEN Label[i - 5]
                ELSE IF i >= 26 /\ i < 26 + Len(payload) THEN payload[i - 25]
                ELSE 0]

\* The base64 alphabet, as character codes.
Base64Char(v) ==
    IF v < 26 THEN 65 + v
    ELSE IF v < 52 THEN 97 + (v - 26)
    ELSE IF v < 62 THEN 48 + (v - 52)
    ELSE IF v = 62 THEN 43 ELSE 47

\* buf.toString("base64").length
Base64Length(n) == 4 * ((n + 2) \div 3)

\* buf.toString("base64"), as character codes.
Base64(bytes) ==
    LET n == Len(bytes)
        at(k) == IF k <= n THEN bytes[k] ELSE 0
    IN  [p \in 1..Base64Length(n) |->
            LET g == (p - 1) \div 4
                j == (p - 1) % 4
                b1 == at(3 * g + 1)
                b2 == at(3 * g + 2)
                b3 == at(3 * g + 3)
            IN  IF j = 0 THEN Base64Char(b1 \div 4)
                ELSE IF j = 1 THEN Base64Char((b1 % 4) * 16 + (b2 \div 16))
                ELSE IF j = 2
                     THEN (IF 3 * g + 2 > n THEN 61
                           ELSE Base64Char((b2 % 16) * 4 + (b3 \div 64)))
                ELSE (IF 3 * g + 3 > n THEN 61 ELSE Base64Char(b3 % 64))]

\* 32-bit words are kept as two 16-bit halves <<hi, lo>>.
RECURSIVE Xor16(_, _)
Xor16(a, b) ==
    IF a = 0 THEN b
    ELSE IF b = 0 THEN a
    ELSE ((a + b) % 2) + 2 * Xor16(a \div 2, b \div 2)

Xor32(x, y) == <<Xor16(x[1], y[1]), Xor16(x[2], y[2])>>

\* x >>> k for 0 < k < 16
ShiftRight(x, k) ==
    LET d == 2 ^ k
    IN  <<x[1] \div d, (x[1] % d) * (65536 \div d) + (x[2] \div d)>>

\* makeCRCTable (server.ts:17-26); 0xEDB88320 is <<60856, 33568>>.
RECURSIVE CrcRounds(_, _)
CrcRounds(c, k) ==
    IF k = 0 THEN c
    ELSE CrcRounds(IF c[2] % 2 = 1 THEN Xor32(<<60856, 33568>>, ShiftRight(c, 1))
                   ELSE ShiftRight(c, 1),
                   k - 1)

makeCRCTable == [n \in 0..255 |-> CrcRounds(<<0, n>>, 8)]

\* One round of the loop of crc32 (server.ts:32).
CrcStep(crc, code) ==
    Xor32(ShiftRight(crc, 8), makeCRCTable[Xor16(crc[2] % 256, code % 256)])

\* The loop of crc32 (server.ts:31-33) from character lo to character hi of str,
\* starting from crc.  The range is halved, and the first half's result is bound
\* (as the one element of a set) before the second half runs from it.
RECURSIVE CrcLoop(_, _, _, _)
CrcLoop(crc, str, lo, hi) ==
    IF lo > hi THEN crc
    ELSE IF lo = hi THEN CrcStep(crc, str[lo])
    ELSE LET mid == (lo + hi) \div 2
         IN  CHOOSE r \in {CrcLoop(c, str, mid + 1, hi) :
                              c \in {CrcLoop(crc, str, lo, mid)}} : TRUE

\* A JavaScript number that is an integer below 2^32 in magnitude.
Number(n) == [neg |-> FALSE, hi |-> n \div 65536, lo |-> n % 65536]

\* x >>> 0: the word read as an unsigned number.
Unsigned(x) == [neg |-> FALSE, hi |-> x[1], lo |-> x[2]]

\* crc32 (server.ts:28-35): (crc ^ (-1)) >>> 0
crc32(str) ==
    Unsigned(Xor32(CrcLoop(<<65535, 65535>>, str, 1, Len(str)),
                   <<65535, 65535>>))

HexDigit(d) ==
    <<"0", "1", "2", "3", "4", "5", "6", "7",
      "8", "9", "a", "b", "c", "d", "e", "f">>[d + 1]

RECURSIVE HexDigits(_)
HexDigits(n) ==
    IF n < 16 THEN <<HexDigit(n)>>
    ELSE Append(HexDigits(n \div 16), HexDigit(n % 16))

\* String.prototype.slice(-k): the last k characters (all, when shorter).
SliceLast(str, k) ==
    IF Len(str) <= k THEN str ELSE SubSeq(str, Len(str) - k + 1, Len(str))

\* Number.prototype.toString(16)
ToString16(num) ==
    LET low == HexDigits(num.lo)
        mag == IF num.hi = 0 THEN low
               ELSE HexDigits(num.hi) \o
                    SliceLast(<<"0", "0", "0">> \o low, 4)
    IN  IF num.neg THEN <<"-">> \o mag ELSE mag

\* ("000" + b64.length.toString(16)).slice(-4)
LengthField(b64Length) ==
    SliceLast(<<"0", "0", "0">> \o ToString16(Number(b64Length)), 4)

\* ("0000000" + crc.toString(16)).slice(-8)
ChecksumField(crc) ==
    SliceLast(<<"0", "0", "0", "0", "0", "0", "0">> \o ToString16(crc), 8)

\* The fields of `packet` (line 231) and `bpacket` (line 232) for a text.  The
\* binary string of buf has the bytes of buf as its character codes.
EnvelopeLength(text) == LengthField(Base64Length(BufferLength(text)))
EnvelopePayload(text) == Base64(Buffer(text))
PacketChecksum(text) == ChecksumField(crc32(Base64(Buffer(text))))
BPacketChecksum(text) == ChecksumField(crc32(Buffer(text)))

\* const sendMessage = (message: string) => ...              (server.ts:223-239)
\* The send calls of the two nested loops: socket.send(packet) and then
\* socket.send(bpacket) for each socket of each pool, pools in for..in order.
RECURSIVE BroadcastCalls_Swapped(_, _, _)
BroadcastCalls_Swapped(pools, order, text) ==
    IF order = <<>> THEN <<>>
    ELSE LET pool == pools[Head(order)]
             here == [i \in 1..(2 * Len(pool)) |->
                         [to |-> pool[(i + 1) \div 2],
                          data |-> [kind |-> IF i % 2 = 1 THEN "bpacket"
                                             ELSE "packet",
                                    body |-> text]]]
         IN  here \o BroadcastCalls_Swapped(pools, Tail(order), text)

RECURSIVE BroadcastCalls(_, _, _)
BroadcastCalls(pools, order, text) ==
    IF order = <<>> THEN <<>>
    ELSE LET pool == pools[Head(order)]
             two(socket) ==
                 << [to |-> socket, data |-> [kind |-> "packet", body |-> text]],
                    [to |-> socket, data |-> [kind |-> "bpacket", body |-> text]] >>
             here == [i \in 1..(2 * Len(pool)) |->
                         two(pool[(i + 1) \div 2])[2 - (i % 2)]]
         IN  here \o BroadcastCalls(pools, Tail(order), text)

sendMessage(text) ==
    LET r == SendAll(BroadcastCalls(connectionPools, poolOrder, text))
    IN  /\ sent' = r.done
        /\ thrown' = r.thrown
        /\ closed' = <<>>
        /\ UNCHANGED <<registry, gauges, sockets>>

\* pmx.action("send-message", ...) calls serverInstance.sendMessage(param).
SendMessage(text) ==
    /\ ~exited
    /\ sendMessage(text)
    /\ last' = [op |-> "sendMessage", sock |-> 0, url |-> "undefined",
                arg |-> text]
    /\ UNCHANGED <<enableMetrics, sendThrows, now, nextSweepAt, history, process,
                   closeRequestedBy, loneSince, edges>>

Next ==
    \/ \E s \in Sockets, u \in Urls, w \in WireHeaderValues : Connection(s, u, w)
    \/ \E s \in Sockets, m \in Msgs : Message(s, m)
    \/ \E s \in Sockets : Close(s)
    \/ Sweep
    \/ \E t \in Texts : SendMessage(t)
    \/ Tick

Spec == Init /\ [][Next]_vars

\* ------------------------------------------------- a transport that misbehaves
\* A second close event for a socket whose close event was already handled.
CloseAgain(socket) ==
    /\ ~exited
    /\ readyState[socket] = "CLOSED"
    /\ OnClose(socket)
    /\ last' = [op |-> "closeAgain", sock |-> socket, url |-> sockUrl[socket],
                arg |-> "undefined"]
    /\ closeRequestedBy' =
          Requested(closeRequestedBy, readyState, Range(closed'), "cascade")
    /\ loneSince' = LoneSinceAfter(loneSince, connectionPools', now)
    /\ UNCHANGED <<enableMetrics, sockHdr, sendThrows, now, nextSweepAt, history,
                   process, edges>>

NextDoubleClose ==
    \/ Next
    \/ \E s \in Sockets : CloseAgain(s)

SpecDoubleClose == Init /\ [][NextDoubleClose]_vars

\* A live socket turns into one whose send() raises.
SocketBreaks(socket) ==
    /\ ~exited
    /\ readyState[socket] \in {"OPEN", "CLOSING"}
    /\ socket \notin sendThrows
    /\ Cardinality(sendThrows) < MaxBroken
    /\ sendThrows' = sendThrows \cup {socket}
    /\ UNCHANGED <<registry, gauges, enableMetrics, sockets, now, nextSweepAt,
                   sent, closed, thrown, last, history, process,
                   closeRequestedBy, loneSince, edges>>

NextSendRaises ==
    \/ Next
    \/ \E s \in Sockets : SocketBreaks(s)

SpecSendRaises == Init /\ [][NextSendRaises]_vars

\* The message handler with the traffic written down: the message events in
\* inbox and the send calls they made in outbox, for the first MaxLog messages.
\* Message bodies are opaque to the relay, so the first one is "m1".
MessageLogged(socket, message) ==
    /\ ~exited
    /\ Len(inbox) < MaxLog
    /\ inbox = <<>> => message = "m1"
    /\ readyState[socket] \in {"OPEN", "CLOSING"}
    /\ OnMessage(socket, message)
    /\ last' = [op |-> "message", sock |-> socket, url |-> sockUrl[socket],
                arg |-> message]
    /\ inbox' = Append(inbox, [from |-> socket, msg |-> message])
    /\ outbox' = outbox \o
                    [i \in 1..Len(sent') |->
                        [from |-> socket, to |-> sent'[i].to,
                         msg |-> sent'[i].data.body]]
    /\ UNCHANGED <<enableMetrics, sendThrows, now, nextSweepAt, history, process,
                   closeRequestedBy, loneSince>>

\* The relay does not look at the controller flag: the requests carry no header.
NextFifo ==
    \/ \E s \in Sockets, u \in Urls : Connection(s, u, "absent")
    \/ \E s \in Sockets, m \in Msgs : MessageLogged(s, m)
    \/ \E s \in Sockets : Close(s)

SpecFifo == Init /\ [][NextFifo]_vars

\* The framer on short texts of every kind, with connections coming and going.
NextFramer ==
    \/ \E s \in Sockets, u \in Urls, w \in WireHeaderValues : Connection(s, u, w)
    \/ \E s \in Sockets : Close(s)
    \/ \E t \in FramerTexts : SendMessage(t)

SpecFramer == Init /\ [][NextFramer]_vars

\* ------------------------------------------------------------ process control
\* Every member of every pool, pools in for..in order.
RECURSIVE MembersInOrder(_, _)
MembersInOrder(pools, order) ==
    IF order = <<>> THEN <<>>
    ELSE pools[Head(order)] \o MembersInOrder(pools, Tail(order))

\* const stop = async () => ...                             (server.ts:241-267)
\* The calls stop() makes up to its first await, in order: clearInterval, then
\* socket.close() for each socket of each pool, then server.close() (the promise
\* executor runs at once).
StopCalls_ServerFirst(pools, order) ==
    LET members == MembersInOrder(pools, order)
    IN  << [call |-> "server.close", on |-> 0] >> \o
        [i \in 1..Len(members) |-> [call |-> "close", on |-> members[i]]] \o
        << [call |-> "clearInterval", on |-> 0] >>

StopCalls_NoCloses(pools, order) ==
    << [call |-> "clearInterval", on |-> 0], [call |-> "server.close", on |-> 0] >>

StopCalls(pools, order) ==
    LET members == MembersInOrder(pools, order)
    IN  << [call |-> "clearInterval", on |-> 0] >> \o
        [i \in 1..Len(members) |-> [call |-> "close", on |-> members[i]]] \o
        << [call |-> "server.close", on |-> 0] >>

\* The sockets of the close calls among `calls`, in order.
CloseCalls(calls) ==
    LET cs == SelectSeq(calls, LAMBDA c : c.call = "close")
    IN  [i \in 1..Len(cs) |-> cs[i].on]

\* process.on('SIGINT' | 'SIGTERM', ...) calls serverInstance.stop(), which runs
\* to its first await (standalone.ts:62-76).
Stop ==
    /\ ~exited
    /\ stopPc = "idle"
    /\ LET calls == StopCalls(connectionPools, poolOrder)
           targets == CloseCalls(calls)
       IN  /\ stopLog' = calls
           /\ cleanupInterval' = "cleared"
           /\ closed' = targets
           /\ readyState' = AfterClose(readyState, Range(targets))
           /\ closeRequestedBy' =
                 Requested(closeRequestedBy, readyState, Range(targets), "stop")
           /\ listening' = FALSE
    /\ stopPc' = "server"
    /\ sent' = <<>>
    /\ thrown' = FALSE
    /\ last' = [op |-> "stop", sock |-> 0, url |-> "undefined", arg |-> "undefined"]
    /\ UNCHANGED <<registry, gauges, enableMetrics, sockUrl, sockIsServer,
                   sockHdr, sendThrows, now, nextSweepAt, history,
                   awaitingRestart, exited, loneSince, edges>>

\* The callback of server.close(): every connection of `server` has ended.  No
\* httpServer exists (isSecure is false unless HTTPS=true), so stop() goes on to
\* metricsServer.close() when there is a metrics server, and resolves otherwise.
ServerClosed ==
    /\ ~exited
    /\ stopPc = "server"
    /\ \A s \in Sockets : readyState[s] \in {"NONE", "CLOSED"}
    /\ IF enableMetrics
       THEN /\ stopLog' = Append(stopLog, [call |-> "metricsServer.close", on |-> 0])
            /\ stopPc' = "metrics"
            /\ UNCHANGED exited
       ELSE /\ stopPc' = "done"
            /\ exited' = TRUE
            /\ UNCHANGED stopLog
    /\ UNCHANGED <<registry, gauges, enableMetrics, sockets, sendThrows, now,
                   nextSweepAt, sent, closed, thrown, last, history,
                   cleanupInterval, listening, awaitingRestart,
                   closeRequestedBy, loneSince, edges>>

\* The callback of metricsServer.close(): stop() resolves and the signal handler
\* calls process.exit(0).
MetricsClosed ==
    /\ ~exited
    /\ stopPc = "metrics"
    /\ stopPc' = "done"
    /\ exited' = TRUE
    /\ UNCHANGED <<registry, gauges, enableMetrics, sockets, sendThrows, now,
                   nextSweepAt, sent, closed, thrown, last, history,
                   cleanupInterval, listening, stopLog, awaitingRestart,
                   closeRequestedBy, loneSince, edges>>

\* pmx.action("schedule-restart", ...)                    (standalone.ts:26-34)
ScheduleRestart ==
    /\ ~exited
    /\ IF getPipeCount = 0
       THEN exited' = TRUE /\ UNCHANGED awaitingRestart
       ELSE awaitingRestart' = TRUE /\ UNCHANGED exited
    /\ UNCHANGED <<registry, gauges, enableMetrics, sockets, sendThrows, now,
                   nextSweepAt, sent, closed, thrown, last, history,
                   cleanupInterval, listening, stopPc, stopLog,
                   closeRequestedBy, loneSince, edges>>

\* A close the server requested completes: while sockets are closing, the
\* transport emits the close event of one of them.
CloseCompletes ==
    WF_vars(\E s \in Sockets : readyState[s] = "CLOSING" /\ Close(s))

\* Shutdown among connections, disconnections and the cleanup interval.  The
\* relay and the broadcast are left out: they only make send calls.
NextStop ==
    \/ \E s \in Sockets, u \in Urls, w \in WireHeaderValues : Connection(s, u, w)
    \/ \E s \in Sockets : Close(s)
    \/ Sweep
    \/ Tick
    \/ Stop
    \/ ServerClosed
    \/ MetricsClosed

SpecStop ==
    /\ Init
    /\ [][NextStop]_vars
    /\ CloseCompletes
    /\ WF_vars(ServerClosed)
    /\ WF_vars(MetricsClosed)

NextRestart ==
    \/ Next
    \/ ScheduleRestart

SpecRestart == Init /\ [][NextRestart]_vars /\ CloseCompletes

\* ==========================================================================
\* The claims.
\* ==========================================================================
\* The connections whose close event has not been handled, by session.
LiveMembers(u) ==
    {s \in Sockets : readyState[s] \in {"OPEN", "CLOSING"} /\ sockUrl[s] = u}

\* memberCount(u): 0 for a session that is not in the registry.
MemberCount(u) ==
    IF u \in DOMAIN connectionPools THEN Len(connectionPools[u]) ELSE 0

RECURSIVE SumOver(_, _)
SumOver(f, keys) ==
    IF keys = {} THEN 0
    ELSE LET k == CHOOSE k \in keys : TRUE
         IN  f[k] + SumOver(f, keys \ {k})

\* The step is the close event of socket a.
CloseStep(a) ==
    readyState[a] \in {"OPEN", "CLOSING"} /\ readyState'[a] = "CLOSED"

\* The step is a run of the cleanup interval.
SweepStep == nextSweepAt' # nextSweepAt

\* C1: in every reachable state a session identifier is a key of connectionPools,
\* and likewise of connectionPoolOpen, if and only if the session has a member (a
\* connection whose close event is still to come); the member list of a key is
\* never empty and holds exactly those members; right after the close event of
\* the last member the identifier is absent.
C1_SessionIffMembers ==
    /\ DOMAIN connectionPoolOpen = DOMAIN connectionPools
    /\ \A u \in Urls :
          /\ u \in DOMAIN connectionPools <=> LiveMembers(u) # {}
          /\ u \in DOMAIN connectionPools =>
                /\ Len(connectionPools[u]) > 0
                /\ Range(connectionPools[u]) = LiveMembers(u)
    /\ (last.op = "close" /\ LiveMembers(last.url) = {}) =>
          last.url \notin DOMAIN connectionPools

\* The last member of a session has just left while another session lives on.
C1_Witness ==
    /\ last.op = "close"
    /\ last.url \notin DOMAIN connectionPools
    /\ joins[last.url] >= 2
    /\ pipeCount = 1

\* C2: a message received from member m of session s is sent, unmodified and once,
\* to exactly the members of s other than m at the time of receipt: not to m, not
\* to another session; and no message is sent by any other handler (a connection
\* that joins later is sent nothing that was received before).
C2_RelayToOthers ==
    [][ /\ \A m \in Sockets, msg \in Msgs :
              (last' = [op |-> "message", sock |-> m, url |-> sockUrl[m],
                        arg |-> msg]
               /\ sockUrl[m] \in DOMAIN connectionPools) =>
                 LET others == Range(connectionPools[sockUrl[m]]) \ {m}
                 IN  /\ {sent'[i].to : i \in 1..Len(sent')} = others
                     /\ Len(sent') = Cardinality(others)
                     /\ \A i \in 1..Len(sent') :
                           /\ sent'[i].data = [kind |-> "message", body |-> msg]
                           /\ sent'[i].to # m
                           /\ sockUrl[sent'[i].to] = sockUrl[m]
        /\ last'.op # "message" =>
              \A i \in 1..Len(sent') : sent'[i].data.kind # "message"
      ]_vars

\* A message was relayed to a co-member while another session exists.
C2_Witness ==
    /\ last.op = "message"
    /\ Len(sent) >= 1
    /\ pipeCount = 2

\* C3: when a member whose request carried X-Rawterm-Is-Server: Yes (a
\* controller) disconnects, every other member of its session has a close
\* requested; when a member without it disconnects, no close is requested and
\* the others stay members of the session, which stays in the registry.
C3_ControllerLeaveCascades ==
    [][ \A a \in Sockets :
          (CloseStep(a) /\ sockUrl[a] \in DOMAIN connectionPools) =>
             LET url == sockUrl[a]
                 others == Range(connectionPools[url]) \ {a}
             IN  IF sockHdr[a] = "Yes"
                 THEN \A b \in others :
                         b \in Range(closed') /\ readyState'[b] = "CLOSING"
                 ELSE /\ closed' = <<>>
                      /\ others # {} =>
                            /\ url \in DOMAIN connectionPools'
                            /\ Range(connectionPools'[url]) = others
      ]_vars

\* C4: in a run of the cleanup interval, a session with exactly one member whose
\* age exceeds 60000 ms has a close requested on that member; a session with one
\* member whose age does not exceed it has none requested; a session with two or
\* more members has none requested on any member, whatever its age.
C4_ReaperSweep ==
    [][ SweepStep =>
          \A u \in DOMAIN connectionPools :
             LET pool == connectionPools[u]
                 age == now - connectionPoolOpen[u]
             IN  /\ (Len(pool) = 1 /\ age > GraceMs) =>
                       pool[1] \in Range(closed') /\ readyState'[pool[1]] = "CLOSING"
                 /\ (Len(pool) = 1 /\ age <= GraceMs) =>
                       pool[1] \notin Range(closed')
                 /\ Len(pool) >= 2 =>
                       \A s \in Range(pool) : s \notin Range(closed')
      ]_vars

\* A sweep closed a lone old member and left an old two-member session alone.
C4_Witness ==
    /\ last.op = "sweep"
    /\ Len(closed) = 1
    /\ \E u \in DOMAIN connectionPools :
          Len(connectionPools[u]) = 2 /\ now - connectionPoolOpen[u] > GraceMs

\* C5: after any sequence of connection and close events, the member count of
\* each session, and getConnectionCount(), equal the joins minus the leaves
\* handled so far, and are never negative.
C5_NetJoinsMinusLeaves ==
    /\ \A u \in Urls :
          /\ MemberCount(u) = joins[u] - leaves[u]
          /\ MemberCount(u) >= 0
    /\ getConnectionCount = SumOver(joins, Urls) - SumOver(leaves, Urls)
    /\ getConnectionCount >= 0

\* Two joins and one leave on a session, one member left.
C5_Witness ==
    /\ \E u \in Urls : joins[u] = 2 /\ leaves[u] = 1 /\ MemberCount(u) = 1
    /\ last.op = "close"

\* Every member of every session in the registry.
AllMembers == UNION {Range(connectionPools[u]) : u \in DOMAIN connectionPools}

\* The send calls of the last handler that went to socket s, in order.
SentTo(s) == SelectSeq(sent, LAMBDA c : c.to = s)

HexChars ==
    {"0", "1", "2", "3", "4", "5", "6", "7", "8", "9", "a", "b", "c", "d", "e", "f"}

\* The number a string of lowercase hex digits denotes.
RECURSIVE HexValue(_)
HexValue(str) ==
    IF str = <<>> THEN 0
    ELSE 16 * HexValue(SubSeq(str, 1, Len(str) - 1)) +
         (CHOOSE d \in 0..15 : HexDigit(d) = str[Len(str)])

IsHex(str, width) ==
    Len(str) = width /\ \A i \in 1..Len(str) : str[i] \in HexChars

\* C6: sendMessage(text) sends to every member of every session in the registry
\* exactly two envelopes of the text, `packet` (checksum over the base64 text) and
\* then `bpacket` (checksum over the raw buffer); it sends nothing to any other
\* connection, and nothing at all when the registry is empty.
C6_BroadcastBothEnvelopes ==
    last.op = "sendMessage" =>
       /\ \A s \in AllMembers :
             SentTo(s) =
                << [to |-> s, data |-> [kind |-> "packet", body |-> last.arg]],
                   [to |-> s, data |-> [kind |-> "bpacket", body |-> last.arg]] >>
       /\ \A i \in 1..Len(sent) : sent[i].to \in AllMembers
       /\ DOMAIN connectionPools = {} => sent = <<>>

\* A broadcast reached three members in two sessions.
C6_Witness ==
    /\ last.op = "sendMessage"
    /\ Len(sent) = 6
    /\ pipeCount = 2

\* C7: for every text passed to sendMessage, the length field of both envelopes
\* is exactly 4 lowercase hex digits whose value is the length of the base64
\* payload, and each checksum field is exactly 8 lowercase hex digits.
C7_EnvelopeFields ==
    last.op = "sendMessage" =>
       /\ IsHex(EnvelopeLength(last.arg), 4)
       /\ HexValue(EnvelopeLength(last.arg)) =
             Base64Length(BufferLength(last.arg))
       /\ Len(EnvelopePayload(last.arg)) = Base64Length(BufferLength(last.arg))
       /\ IsHex(PacketChecksum(last.arg), 8)
       /\ IsHex(BPacketChecksum(last.arg), 8)

\* The step is a second close event of socket a.
CloseAgainStep(a) ==
    /\ readyState[a] = "CLOSED"
    /\ last'.op = "closeAgain"
    /\ last'.sock = a
    /\ now' = now

\* C8: the close handler run for a socket that is no member of its session's
\* list, or whose session is gone, raises nothing and leaves the member lists,
\* the creation timestamps and the session set as they were.
C8_LeaveOfNonMemberIsNoOp ==
    [][ \A a \in Sockets :
          CloseAgainStep(a) =>
             /\ ~thrown'
             /\ connectionPools' = connectionPools
             /\ connectionPoolOpen' = connectionPoolOpen
      ]_vars

\* C9: in the relay fan-out and in the broadcast loop a send that fails for one
\* recipient does not keep the other recipients from being sent to, and nothing
\* is raised to the caller of the handler.
C9_SendFailureIsIsolated ==
    /\ (last.op = "message" /\ last.url \in DOMAIN connectionPools) =>
          /\ ~thrown
          /\ \A r \in Range(connectionPools[last.url]) \ {last.sock} :
                r \notin sendThrows => Len(SentTo(r)) = 1
    /\ last.op = "sendMessage" =>
          /\ ~thrown
          /\ \A r \in AllMembers : r \notin sendThrows => Len(SentTo(r)) = 2

\* C10: pipeCount, getPipeCount() and the pipe gauge equal the number of sessions
\* in the registry in every reachable state (so they move by one exactly when a
\* session is created or deleted, and not on a join to an existing session); the
\* connection gauge equals the number of members, joins minus leaves.
C10_CountersMatchRegistry ==
    /\ pipeCount = Cardinality(DOMAIN connectionPools)
    /\ getPipeCount = Cardinality(DOMAIN connectionPools)
    /\ enableMetrics =>
          /\ pipeCounter = Cardinality(DOMAIN connectionPools)
          /\ connectionCounter = getConnectionCount
          /\ connectionCounter = SumOver(joins, Urls) - SumOver(leaves, Urls)

\* A join to an existing session, after a session was created and deleted.
C10_Witness ==
    /\ last.op = "connection"
    /\ MemberCount(last.url) = 2
    /\ pipeCount = 1
    /\ \E u \in Urls : leaves[u] = 1

\* The step is the call of stop().
StopStep == stopPc = "idle" /\ stopPc' = "server"

\* The places of the calls named c in a log of calls.
CallsAt(log, c) == {i \in 1..Len(log) : log[i].call = c}

\* C11: stop() cancels the cleanup interval first, then requests the close of
\* every member of every session in the registry, and only after that closes the
\* servers (server.close(), later metricsServer.close()); from the call of stop()
\* on the interval stays cleared and no sweep runs.
C11_StopOrder ==
    [][ /\ StopStep =>
              /\ Cardinality(CallsAt(stopLog', "clearInterval")) = 1
              /\ Cardinality(CallsAt(stopLog', "server.close")) = 1
              /\ {stopLog'[j].on : j \in CallsAt(stopLog', "close")} = AllMembers
              /\ Range(closed') = AllMembers
              /\ \A s \in AllMembers : readyState'[s] = "CLOSING"
              /\ cleanupInterval' = "cleared"
              /\ ~listening'
        /\ \A i \in CallsAt(stopLog', "clearInterval") :
              \A j \in CallsAt(stopLog', "close") : i < j
        /\ \A j \in CallsAt(stopLog', "clearInterval") \cup
                     CallsAt(stopLog', "close") :
              \A k \in CallsAt(stopLog', "server.close") \cup
                       CallsAt(stopLog', "metricsServer.close") : j < k
        /\ stopPc # "idle" =>
              /\ ~SweepStep
              /\ cleanupInterval = "cleared"
              /\ cleanupInterval' = "cleared"
              /\ SubSeq(stopLog', 1, Len(stopLog)) = stopLog
      ]_vars

\* stop() asked three members of two sessions to close, and the time at which
\* the cleanup interval was due has come with both sessions still registered.
C11_Witness ==
    /\ last.op = "stop"
    /\ Len(closed) = 3
    /\ Cardinality(DOMAIN connectionPools) = 2
    /\ stopPc = "server"
    /\ now >= nextSweepAt

\* C12: a schedule-restart request made while no session exists terminates the
\* process at once; one made while sessions exist is followed by termination
\* once getPipeCount() has come down to 0.
C12_ScheduledRestartExits ==
    /\ [][ (awaitingRestart' # awaitingRestart \/ exited' # exited) =>
              (getPipeCount = 0 <=> exited') ]_vars
    /\ ((awaitingRestart /\ getPipeCount = 0) ~> exited)

\* The UTF-8 encoding of a whole text, and its length (Buffer.byteLength).
TextBytes(text) ==
    WrittenBytes(TextUnits(text), 3 * StringLength(TextUnits(text)))

ByteLength(text) == Len(TextBytes(text))

\* C13: the record sendMessage builds for a text is a buffer of 27 +
\* byteLength(text) bytes: byte 0 is 0x05, byte 2 is 0x40, "Message from server"
\* starts at byte 6, the whole text (in UTF-8) starts at byte 26, and every other
\* byte, the last one included, is zero.
C13_RecordLayout ==
    last.op = "sendMessage" =>
       LET buf == Buffer(last.arg)
           payload == TextBytes(last.arg)
       IN  /\ Len(buf) = 27 + ByteLength(last.arg)
           /\ \A p \in 1..Len(buf) :
                 buf[p] =
                    IF p = 1 THEN 5
                    ELSE IF p = 3 THEN 64
                    ELSE IF p \in 7..(6 + Len(Label)) THEN Label[p - 6]
                    ELSE IF p \in 27..(26 + Len(payload)) THEN payload[p - 26]
                    ELSE 0

\* C14: a run of the cleanup interval requests the close of a member only if its
\* session has had exactly one member, without a break, for more than 60000 ms:
\* not if the session came down to one member, or the member joined, more
\* recently than that.
C14_ReapsOnlyLongLone ==
    [][ SweepStep =>
          \A i \in 1..Len(closed') :
             LET u == sockUrl[closed'[i]]
             IN  /\ u \in DOMAIN loneSince
                 /\ now - loneSince[u] > GraceMs
      ]_vars

\* C15: when the close the cleanup interval requested on the lone member of a
\* session completes, the handling of that close event removes the session (its
\* member list and its creation timestamp) from the registry, whatever connection
\* events were handled in between.
C15_ReapDeletesSession ==
    [][ \A a \in Sockets :
          (CloseStep(a) /\ closeRequestedBy[a] = "reaper") =>
             /\ sockUrl[a] \notin DOMAIN connectionPools'
             /\ sockUrl[a] \notin DOMAIN connectionPoolOpen'
      ]_vars

\* C16: in the state right after the close event of a controller (a member whose
\* request carried X-Rawterm-Is-Server: Yes) has been handled, its session is no
\* longer in the registry, however many members it had.
C16_ControllerLeaveDeletesSession ==
    [][ \A a \in Sockets :
          (CloseStep(a) /\ sockHdr[a] = "Yes") =>
             /\ sockUrl[a] \notin DOMAIN connectionPools'
             /\ sockUrl[a] \notin DOMAIN connectionPoolOpen'
      ]_vars

\* C17: a member is recorded as a controller exactly when its connection request
\* carried the header X-Rawterm-Is-Server with the value "Yes" (the transport
\* presents the header names in lower case).
C17_ControllerFlagFromHeader ==
    \A s \in Sockets :
       readyState[s] \in {"OPEN", "CLOSING"} =>
          (sockIsServer[s] <=> sockHdr[s] = "Yes")

\* a is b with some elements left out, the rest in the same order.
RECURSIVE IsSubsequence(_, _)
IsSubsequence(a, b) ==
    IF a = <<>> THEN TRUE
    ELSE IF b = <<>> THEN FALSE
    ELSE IF Head(a) = Head(b) THEN IsSubsequence(Tail(a), Tail(b))
    ELSE IsSubsequence(a, Tail(b))

\* The messages received from m, and those sent to r on behalf of m, in order.
ReceivedFrom(m) ==
    LET xs == SelectSeq(inbox, LAMBDA e : e.from = m)
    IN  [i \in 1..Len(xs) |-> xs[i].msg]

RelayedOn(m, r) ==
    LET xs == SelectSeq(outbox, LAMBDA e : e.from = m /\ e.to = r)
    IN  [i \in 1..Len(xs) |-> xs[i].msg]

\* C18: for every sender m and recipient r, the messages the relay has sent to r
\* on behalf of m are, in order, a subsequence of the messages received from m
\* (nothing reordered, nothing sent twice), r is in m's session and is not m, and
\* nothing is held back: what a message event sends is that event's message.
C18_FifoPerEdge ==
    /\ \A m \in Sockets, r \in Sockets :
          /\ IsSubsequence(RelayedOn(m, r), ReceivedFrom(m))
          /\ RelayedOn(m, r) # <<>> => (r # m /\ sockUrl[r] = sockUrl[m])
    /\ last.op = "message" =>
          \A i \in 1..Len(sent) : sent[i].data.body = last.arg

\* Two different messages from one sender were relayed to one recipient, and a
\* third connection that joined the session later was sent neither.
C18_Witness ==
    \E m \in Sockets, r \in Sockets, c \in Sockets :
       /\ RelayedOn(m, r) = <<"m1", "m2">>
       /\ c \notin {m, r}
       /\ readyState[c] = "OPEN"
       /\ sockUrl[c] = sockUrl[m]
       /\ RelayedOn(m, c) = <<>>

\* C19: a run of the cleanup interval, a sendMessage broadcast and the relay of a
\* message only make close or send calls: the session set, every member list,
\* every creation timestamp and pipeCount stay as they were.  The registry
\* changes only in the connection and close handlers, and a creation timestamp
\* is written only when its session is created, as the time of that connection.
C19_FrameConditions ==
    [][ /\ last'.op \in {"sweep", "sendMessage", "message"} =>
              /\ connectionPools' = connectionPools
              /\ connectionPoolOpen' = connectionPoolOpen
              /\ pipeCount' = pipeCount
        /\ last'.op = "sweep" => sent' = <<>>
        /\ last'.op \in {"sendMessage", "message"} => closed' = <<>>
        /\ (connectionPools' # connectionPools \/
            connectionPoolOpen' # connectionPoolOpen \/
            pipeCount' # pipeCount) =>
              /\ last'.op \in {"connection", "close"}
              /\ readyState'[last'.sock] # readyState[last'.sock]
        /\ \A u \in DOMAIN connectionPoolOpen' :
              IF u \in DOMAIN connectionPoolOpen
              THEN connectionPoolOpen'[u] = connectionPoolOpen[u]
              ELSE /\ last'.op = "connection"
                   /\ last'.url = u
                   /\ u \notin DOMAIN connectionPools
                   /\ connectionPoolOpen'[u] = now
      ]_vars

\* A broadcast went to two members of a session created earlier, one of which
\* the cleanup interval had asked to close before and which is still registered.
C19_Witness ==
    /\ last.op = "sendMessage"
    /\ \E s \in AllMembers :
          /\ closeRequestedBy[s] = "reaper"
          /\ Len(connectionPools[sockUrl[s]]) = 2
          /\ connectionPoolOpen[sockUrl[s]] < now

\* C20: once stop() has been called (no connection arrives after it, and every
\* close it requested is followed by that socket's close event), the registry
\* becomes empty, with getPipeCount() = 0 and getConnectionCount() = 0, and it
\* stays so: from some point on, if stop() has been called (stopPc never goes
\* back to "idle"), the registry is empty.
C20_StopDrainsRegistry ==
    <>[](stopPc # "idle" =>
            /\ DOMAIN connectionPools = {}
            /\ DOMAIN connectionPoolOpen = {}
            /\ getPipeCount = 0
            /\ getConnectionCount = 0)

\* stop() was called with three members in two sessions, their close events
\* have all been handled and the registry is empty.
C20_Witness ==
    /\ stopPc # "idle"
    /\ Len(CloseCalls(stopLog)) = 3
    /\ Cardinality({sockUrl[CloseCalls(stopLog)[i]] : i \in 1..3}) = 2
    /\ \A s \in Sockets : readyState[s] = "CLOSED"
    /\ DOMAIN connectionPools = {}
    /\ getPipeCount = 0
====
